---- MODULE Spec2Model ----
(***************************************************************************)
(* Model of backsplash (src/index.ts): conversions between latitude /      *)
(* longitude, Web-Mercator world coordinates, pixel coordinates and tile   *)
(* indices, great-circle distance and zoom selection.                      *)
(*                                                                         *)
(* The library is a set of pure functions.  Each exported function is an   *)
(* operator; each action of the state machine is one call of an exported   *)
(* function on inputs drawn from a bounded set, recording the arguments    *)
(* and the returned value.                                                 *)
(*                                                                         *)
(* Numbers.  A JavaScript number is modelled in one of three ways,         *)
(* according to what the code does with it:                                *)
(*   - integers (tile indices, array elements) are TLA+ integers;          *)
(*   - coordinates that the code only scales by powers of two, adds and    *)
(*     floors are exact dyadic rationals [m, e] = m * 2^e, the arithmetic  *)
(*     a binary float performs without rounding;                           *)
(*   - results of Math.sin / cos / log / asin / sqrt and of products of    *)
(*     them are decimal fixed-point values (unit 1/One) rounded to         *)
(*     nearest after every operation, as a float rounds after every        *)
(*     operation;                                                          *)
(*   - numbers that may be NaN or infinite are records [k, m, e] with      *)
(*     k in {"fin", "nan", "inf", "ninf"}.                                 *)
(***************************************************************************)
EXTENDS Integers, Sequences, FiniteSets, TLC

VARIABLES op, in, out

vars == <<op, in, out>>

----------------------------------------------------------------------------
(* Integer helpers *)

Abs(a) == IF a < 0 THEN -a ELSE a

Sign(a) == IF a < 0 THEN -1 ELSE IF a > 0 THEN 1 ELSE 0

\* a / b rounded to the nearest integer, ties away from zero (b > 0).
\* Rounding is symmetric in the sign of a, as a float's rounding is.
RoundDiv(a, b) == Sign(a) * ((Abs(a) + b \div 2) \div b)

\* floor(log2(n)) for an integer n >= 1
RECURSIVE FloorLog2Int(_)
FloorLog2Int(n) == IF n < 2 THEN 0 ELSE 1 + FloorLog2Int(n \div 2)

\* floor(sqrt(n)) for an integer n >= 0, by bisection on lo..hi
RECURSIVE ISqrtIn(_, _, _)
ISqrtIn(n, lo, hi) ==
    IF lo >= hi THEN lo
    ELSE LET mid == (lo + hi + 1) \div 2
         IN  IF mid * mid <= n THEN ISqrtIn(n, mid, hi) ELSE ISqrtIn(n, lo, mid - 1)

ISqrt(n) == ISqrtIn(n, 0, 46340)

----------------------------------------------------------------------------
(* Exact dyadic rationals m * 2^e, kept normalised (m odd, or 0 * 2^0) *)

RECURSIVE Norm(_, _)
Norm(m, e) ==
    IF m = 0 THEN [m |-> 0, e |-> 0]
    ELSE IF m % 2 = 0 THEN Norm(m \div 2, e + 1)
    ELSE [m |-> m, e |-> e]

DyInt(n) == Norm(n, 0)

DyMul(a, b) == Norm(a.m * b.m, a.e + b.e)

\* a / b for a divisor that is a power of two (the only divisors the
\* coordinate code uses: 1 << zoom and GOOGLE_TILE_SIZE); exact in a float
DyDivPow2(a, b) == Norm(a.m * b.m, a.e - b.e)

DyAdd(a, b) ==
    LET e == IF a.e < b.e THEN a.e ELSE b.e
    IN  Norm(a.m * 2^(a.e - e) + b.m * 2^(b.e - e), e)

DyLess(a, b) ==
    LET e == IF a.e < b.e THEN a.e ELSE b.e
    IN  a.m * 2^(a.e - e) < b.m * 2^(b.e - e)

\* Math.floor of a dyadic rational, an integer
MathFloor(a) == IF a.e >= 0 THEN a.m * 2^(a.e) ELSE a.m \div 2^(-a.e)

----------------------------------------------------------------------------
(* Fixed-point reals, unit 1/One, and the Math library on them *)

One == 10^4

PI_FP == 31416

HALF_PI == PI_FP \div 2

MulFP(a, b) == RoundDiv(a * b, One)

\* sin x for 0 <= x <= pi/4:  x - x^3/6 + x^5/120 - x^7/5040
SinPoly(x) ==
    LET x2 == MulFP(x, x)
        x3 == MulFP(x2, x)
        x5 == MulFP(x3, x2)
        x7 == MulFP(x5, x2)
    IN  x - RoundDiv(x3, 6) + RoundDiv(x5, 120) - RoundDiv(x7, 5040)

\* cos x for 0 <= x <= pi/4:  1 - x^2/2 + x^4/24 - x^6/720
CosPoly(x) ==
    LET x2 == MulFP(x, x)
        x4 == MulFP(x2, x2)
        x6 == MulFP(x4, x2)
    IN  One - RoundDiv(x2, 2) + RoundDiv(x4, 24) - RoundDiv(x6, 720)

\* sin on [0, pi/2], reduced to the polynomial kernels
SinQuadrant(x) ==
    IF 2 * x <= HALF_PI THEN SinPoly(x) ELSE CosPoly(HALF_PI - x)

\* Math.sin: odd, period 2 pi
MathSin(x) ==
    LET a == Abs(x) % (2 * PI_FP)
        h == IF a > PI_FP THEN a - PI_FP ELSE a
        q == IF h > HALF_PI THEN PI_FP - h ELSE h
        s == SinQuadrant(q)
    IN  Sign(x) * (IF a > PI_FP THEN -s ELSE s)

\* Math.cos: even, period 2 pi
MathCos(x) ==
    LET a == Abs(x) % (2 * PI_FP)
        h == IF a > PI_FP THEN 2 * PI_FP - a ELSE a
    IN  IF h > HALF_PI THEN -SinQuadrant(h - HALF_PI)
        ELSE SinQuadrant(HALF_PI - h)

\* Math.sqrt of a fixed-point value a >= 0, rounded to nearest
MathSqrt(a) ==
    LET n == a * One
        r == ISqrt(n)
    IN  IF n - r * r > r THEN r + 1 ELSE r

\* asin z for 0 <= z <= 1/2:  z + z^3/6 + 3 z^5/40 + 15 z^7/336 + 105 z^9/3456
AsinPoly(z) ==
    LET z2 == MulFP(z, z)
        z3 == MulFP(z2, z)
        z5 == MulFP(z3, z2)
        z7 == MulFP(z5, z2)
        z9 == MulFP(z7, z2)
    IN  z + RoundDiv(z3, 6) + RoundDiv(3 * z5, 40) + RoundDiv(15 * z7, 336)
          + RoundDiv(105 * z9, 3456)

\* Math.asin on [0, 1]; the caller handles arguments above 1 (NaN).
\* Above 1/2:  asin x = pi/2 - 2 asin(sqrt((1 - x) / 2))
AsinUnit(x) ==
    IF 2 * x <= One THEN AsinPoly(x)
    ELSE LET h == ((One - x) * One) \div 2
             r == ISqrt(h)
             z == IF h - r * r > r THEN r + 1 ELSE r
         IN  HALF_PI - 2 * AsinPoly(z)

\* 2 * atanh(t) for 0 <= t <= 1/3:  2 (t + t^3/3 + t^5/5 + t^7/7 + t^9/9)
TwoAtanh(t) ==
    LET t2 == MulFP(t, t)
        t3 == MulFP(t2, t)
        t5 == MulFP(t3, t2)
        t7 == MulFP(t5, t2)
        t9 == MulFP(t7, t2)
    IN  2 * (t + RoundDiv(t3, 3) + RoundDiv(t5, 5) + RoundDiv(t7, 7) + RoundDiv(t9, 9))

\* Math.log of the integer n >= 1: n = 2^k * f with 1 <= f < 2,
\* log n = k log 2 + 2 atanh((f - 1) / (f + 1))
LogInt(n) ==
    LET k == FloorLog2Int(n)
        p == 2^k
    IN  RoundDiv(k * 69315, 10) + TwoAtanh(RoundDiv((n - p) * One, n + p))

----------------------------------------------------------------------------
(* Numbers that may be NaN or infinite: [k, m, e], a finite one being      *)
(* m * 2^e with a significand of at most 15 bits, rounded to nearest       *)
(* after every operation.                                                  *)

NaN == [k |-> "nan", m |-> 0, e |-> 0]

PosInf == [k |-> "inf", m |-> 0, e |-> 0]

NegInf == [k |-> "ninf", m |-> 0, e |-> 0]

\* m * 2^e rounded to the significand width, normalised
Fin(m, e) ==
    LET w == IF m = 0 THEN 0 ELSE FloorLog2Int(Abs(m)) + 1
        s == IF w > 15 THEN w - 15 ELSE 0
        d == Norm(RoundDiv(m, 2^s), e + s)
    IN  [k |-> "fin", m |-> d.m, e |-> d.e]

IsFin(x) == x.k = "fin"

\* the value of a finite number that is an integer
IntOf(x) == x.m * 2^(x.e)

IsInt(x) == x.k = "fin" /\ x.e >= 0

\* x > n and x < n for an integer n, as JavaScript compares: false on NaN
JsGtInt(x, n) == x.k = "inf" \/ (x.k = "fin" /\ IntOf(x) > n)

JsLtInt(x, n) == x.k = "ninf" \/ (x.k = "fin" /\ IntOf(x) < n)

JsMul(a, b) ==
    IF a.k = "nan" \/ b.k = "nan" THEN NaN
    ELSE IF IsFin(a) /\ IsFin(b) THEN Fin(a.m * b.m, a.e + b.e)
    ELSE LET sa == IF IsFin(a) THEN Sign(a.m) ELSE IF a.k = "inf" THEN 1 ELSE -1
             sb == IF IsFin(b) THEN Sign(b.m) ELSE IF b.k = "inf" THEN 1 ELSE -1
         IN  IF sa * sb = 0 THEN NaN ELSE IF sa * sb > 0 THEN PosInf ELSE NegInf

\* the shift that brings a significand n >= 1 into [2^29, 2^30)
LeftShift(n) == 29 - FloorLog2Int(n)

\* a / b as JavaScript divides: NaN for 0/0, inf/inf and NaN operands,
\* an infinity for x/0, zero for x/inf, else the rounded quotient
JsDiv(a, b) ==
    IF a.k = "nan" \/ b.k = "nan" THEN NaN
    ELSE IF ~IsFin(a) /\ ~IsFin(b) THEN NaN
    ELSE IF ~IsFin(a)
         THEN IF (a.k = "inf") = (b.m >= 0) THEN PosInf ELSE NegInf
    ELSE IF ~IsFin(b) THEN Fin(0, 0)
    ELSE IF b.m = 0
         THEN IF a.m = 0 THEN NaN ELSE IF a.m > 0 THEN PosInf ELSE NegInf
    ELSE IF a.m = 0 THEN Fin(0, 0)
    ELSE LET s == LeftShift(Abs(a.m))
             q == RoundDiv(Abs(a.m) * 2^s, Abs(b.m))
         IN  Fin(Sign(a.m) * Sign(b.m) * q, a.e - b.e - s)

\* Math.floor(Math.log2(x)):  NaN below zero, -Infinity at zero
FloorLog2(x) ==
    CASE x.k = "nan" -> NaN
      [] x.k = "ninf" -> NaN
      [] x.k = "inf" -> PosInf
      [] OTHER -> IF x.m < 0 THEN NaN
                  ELSE IF x.m = 0 THEN NegInf
                  ELSE Fin(FloorLog2Int(x.m) + x.e, 0)

\* Math.pow(2, n) for an integer n
Pow2(n) == [k |-> "fin", m |-> 1, e |-> n]

\* a fixed-point value (unit 1/One) as a float
FromFP(v) == Fin(RoundDiv(v * 2^15, One), -15)

----------------------------------------------------------------------------
(* src/index.ts.  A LatLong is [latitude, longitude] in whole degrees. *)

\* deg/180.0 * Math.PI, in fixed point (the product is taken first so that
\* the quotient is rounded once)
degToRad(deg) == RoundDiv(deg * PI_FP, 180)

EARTH_RADIUS_METERS == 6372800

\* the haversine term a (line 22), evaluated left to right as written
HaversineA(pt1, pt2) ==
    LET lat1 == degToRad(pt1.latitude)
        lon1 == degToRad(pt1.longitude)
        lat2 == degToRad(pt2.latitude)
        lon2 == degToRad(pt2.longitude)
        dLat == lat2 - lat1
        dLon == lon2 - lon1
        sLat == MathSin(RoundDiv(dLat, 2))
        sLon == MathSin(RoundDiv(dLon, 2))
    IN  MulFP(sLat, sLat)
          + MulFP(MulFP(MulFP(sLon, sLon), MathCos(lat1)), MathCos(lat2))

\* haversineMeters: EARTH_RADIUS_METERS * 2 * asin(sqrt(a)); Math.sqrt of a
\* negative number and Math.asin of a number above 1 are NaN
haversineMeters(pt1, pt2) ==
    LET a == HaversineA(pt1, pt2)
    IN  IF a < 0 THEN NaN
        ELSE LET r == MathSqrt(a)
             IN  IF r > One THEN NaN
                 ELSE LET c == 2 * AsinUnit(r)
                      IN  Fin(RoundDiv(c * (EARTH_RADIUS_METERS \div 100), 100), 0)

\* clamp(x, [min, max]):  x > max ? max : x < min ? min : x
clamp(x, min, max) ==
    IF JsGtInt(x, max) THEN Fin(max, 0)
    ELSE IF JsLtInt(x, min) THEN Fin(min, 0)
    ELSE x

MIN_ZOOM == 1

MAX_ZOOM == 20

GoogleZoom == MIN_ZOOM .. MAX_ZOOM

\* 156543.03392 to the significand width: 19568 * 2^3
EquatorMetersPerPx == Fin(19568, 3)

\* 156543.03392 * Math.cos(latitude * Math.PI / 180)
MetersPerPxAtZoom0(loc) ==
    JsMul(EquatorMetersPerPx, FromFP(MathCos(RoundDiv(loc.latitude * PI_FP, 180))))

googleZoomLevel(loc, metersPerPx) ==
    LET idealZoomFloor == FloorLog2(JsDiv(MetersPerPxAtZoom0(loc), metersPerPx))
    IN  clamp(idealZoomFloor, MIN_ZOOM, MAX_ZOOM)

\* faulty variant: Math.pow(zoom, 2) for Math.pow(2, zoom)
googleZoomMetersPerPxPowSwapped(loc, zoom) ==
    JsDiv(MetersPerPxAtZoom0(loc), Fin(zoom * zoom, 0))

googleZoomMetersPerPx(loc, zoom) == JsDiv(MetersPerPxAtZoom0(loc), Pow2(zoom))

chooseZoom(extent, clientWidth) ==
    LET topRight == [latitude |-> extent.topLeft.latitude,
                     longitude |-> extent.bottomRight.longitude]
        metersWidth == haversineMeters(extent.topLeft, topRight)
        desiredMetersPerPx == JsDiv(metersWidth, clientWidth)
    IN  googleZoomLevel(topRight, desiredMetersPerPx)

----------------------------------------------------------------------------
(* World, pixel and tile coordinates *)

GOOGLE_TILE_SIZE == 256

\* the sine clamp 0.9999 of toWorldCoords, in units of 1/One
SINY_LIMIT == 9999

\* faulty variant: x without the 0.5 offset of the origin
toWorldCoordsNoOffset(loc) ==
    LET siny == IntOf(clamp(Fin(MathSin(RoundDiv(loc.latitude * PI_FP, 180)), 0),
                            -SINY_LIMIT, SINY_LIMIT))
        logOdds == LogInt(One + siny) - LogInt(One - siny)
        yUnit == One \div 2 - RoundDiv(logOdds * One, 4 * PI_FP)
        xUnit == RoundDiv(loc.longitude * 2^20, 360)
    IN  [type |-> "WorldCoordinate",
         x |-> DyMul(DyInt(GOOGLE_TILE_SIZE), Norm(xUnit, -20)),
         y |-> DyMul(DyInt(GOOGLE_TILE_SIZE),
                     Norm(RoundDiv(yUnit * 2^16, One), -16))]

\* toWorldCoords.  Math.log((1 + siny) / (1 - siny)) is taken as the
\* difference of the logarithms of the two fixed-point integers.
toWorldCoords(loc) ==
    LET siny == IntOf(clamp(Fin(MathSin(RoundDiv(loc.latitude * PI_FP, 180)), 0),
                            -SINY_LIMIT, SINY_LIMIT))
        logOdds == LogInt(One + siny) - LogInt(One - siny)
        yUnit == One \div 2 - RoundDiv(logOdds * One, 4 * PI_FP)
        xUnit == 2^19 + RoundDiv(loc.longitude * 2^20, 360)
    IN  [type |-> "WorldCoordinate",
         x |-> DyMul(DyInt(GOOGLE_TILE_SIZE), Norm(xUnit, -20)),
         y |-> DyMul(DyInt(GOOGLE_TILE_SIZE),
                     Norm(RoundDiv(yUnit * 2^16, One), -16))]

\* faulty variant: 1 << (zoom - 1)
ShiftLeft1OffByOne(zoom) ==
    LET s == (zoom - 1) % 32
    IN  [m |-> IF s = 31 THEN -1 ELSE 1, e |-> s]

\* 1 << zoom: a 32-bit shift, the count taken modulo 32
ShiftLeft1(zoom) ==
    LET s == zoom % 32
    IN  [m |-> IF s = 31 THEN -1 ELSE 1, e |-> s]

worldToPixelCoords(w, zoom) ==
    LET zoomFactor == ShiftLeft1(zoom)
    IN  [type |-> "PixelCoordinate",
         x |-> DyMul(w.x, zoomFactor),
         y |-> DyMul(w.y, zoomFactor),
         zoom |-> zoom]

pixelToWorldCoords(p) ==
    LET zoomFactor == ShiftLeft1(p.zoom)
    IN  [type |-> "WorldCoordinate",
         x |-> DyDivPow2(p.x, zoomFactor),
         y |-> DyDivPow2(p.y, zoomFactor)]

\* faulty variant: Math.round for Math.floor
pixelToTileCoordsRound(p) ==
    [type |-> "TileCoordinate",
     x |-> MathFloor(DyDivPow2(DyAdd(p.x, DyInt(GOOGLE_TILE_SIZE \div 2)),
                               DyInt(GOOGLE_TILE_SIZE))),
     y |-> MathFloor(DyDivPow2(DyAdd(p.y, DyInt(GOOGLE_TILE_SIZE \div 2)),
                               DyInt(GOOGLE_TILE_SIZE))),
     zoom |-> p.zoom]

pixelToTileCoords(p) ==
    [type |-> "TileCoordinate",
     x |-> MathFloor(DyDivPow2(p.x, DyInt(GOOGLE_TILE_SIZE))),
     y |-> MathFloor(DyDivPow2(p.y, DyInt(GOOGLE_TILE_SIZE))),
     zoom |-> p.zoom]

\* faulty variant: bottomRight is the last pixel of the tile, not the next tile's first
tileToPixelCoordsInclusive(t) ==
    [topLeft |-> [type |-> "PixelCoordinate",
                  x |-> DyInt(t.x * GOOGLE_TILE_SIZE),
                  y |-> DyInt(t.y * GOOGLE_TILE_SIZE),
                  zoom |-> t.zoom],
     bottomRight |-> [type |-> "PixelCoordinate",
                      x |-> DyInt((t.x + 1) * GOOGLE_TILE_SIZE - 1),
                      y |-> DyInt((t.y + 1) * GOOGLE_TILE_SIZE - 1),
                      zoom |-> t.zoom]]

tileToPixelCoords(t) ==
    [topLeft |-> [type |-> "PixelCoordinate",
                  x |-> DyInt(t.x * GOOGLE_TILE_SIZE),
                  y |-> DyInt(t.y * GOOGLE_TILE_SIZE),
                  zoom |-> t.zoom],
     bottomRight |-> [type |-> "PixelCoordinate",
                      x |-> DyInt((t.x + 1) * GOOGLE_TILE_SIZE),
                      y |-> DyInt((t.y + 1) * GOOGLE_TILE_SIZE),
                      zoom |-> t.zoom]]

tileCoordinate(loc, zoom) ==
    pixelToTileCoords(worldToPixelCoords(toWorldCoords(loc), zoom))

\* the while loop of inclusiveRange: push curr + 1 while the last element
\* is below max
RECURSIVE RangeLoop(_, _, _)
RangeLoop(range, curr, max) ==
    IF range[Len(range)] < max
    THEN RangeLoop(Append(range, curr + 1), curr + 1, max)
    ELSE range

\* faulty variant: the range stops before max
inclusiveRangeExclusive(min, max) ==
    IF min < max THEN RangeLoop(<<min>>, min, max - 1) ELSE <<>>

\* faulty variant: an inverted range is empty
inclusiveRangeEmptyWhenInverted(min, max) ==
    IF min > max THEN <<>> ELSE RangeLoop(<<min>>, min, max)

inclusiveRange(min, max) == RangeLoop(<<min>>, min, max)

\* ys.forEach(y => coords.push({x, y, zoom})) from index j on
RECURSIVE ForEachY(_, _, _, _, _)
ForEachY(coords, x, ys, j, zoom) ==
    IF j > Len(ys) THEN coords
    ELSE ForEachY(Append(coords, [type |-> "TileCoordinate",
                                  x |-> x, y |-> ys[j], zoom |-> zoom]),
                  x, ys, j + 1, zoom)

\* xs.forEach(x => ys.forEach(...)) from index i on
RECURSIVE ForEachX(_, _, _, _, _)
ForEachX(coords, xs, i, ys, zoom) ==
    IF i > Len(xs) THEN coords
    ELSE ForEachX(ForEachY(coords, xs[i], ys, 1, zoom), xs, i + 1, ys, zoom)

\* faulty variant: the two index ranges are exchanged
tileCoordinatesSwapped(extent, zoom) ==
    LET tl == tileCoordinate(extent.topLeft, zoom)
        br == tileCoordinate(extent.bottomRight, zoom)
        xs == inclusiveRange(tl.x, br.x)
        ys == inclusiveRange(tl.y, br.y)
    IN  ForEachX(<<>>, ys, 1, xs, zoom)

tileCoordinates(extent, zoom) ==
    LET tl == tileCoordinate(extent.topLeft, zoom)
        br == tileCoordinate(extent.bottomRight, zoom)
        xs == inclusiveRange(tl.x, br.x)
        ys == inclusiveRange(tl.y, br.y)
    IN  ForEachX(<<>>, xs, 1, ys, zoom)

----------------------------------------------------------------------------
(* Inputs *)

\* largest tile index drawn next to the origin
MaxTile == 3

\* widest per-axis tile span of a bounding box that is enumerated
MaxSpan == 3

\* largest |min|, |max| handed to inclusiveRange directly
MaxRange == 4

LatLong(la, lo) == [latitude |-> la, longitude |-> lo]

Latitudes == {-90, -86, -85, -60, -30, 0, 30, 42, 60, 85, 86, 90}

Longitudes == {-180, -135, -88, -1, 0, 1, 90, 179, 180}

GeoPoints == {LatLong(la, lo) : la \in Latitudes, lo \in Longitudes}

\* corners of bounding boxes
BoxPoints == {LatLong(la, lo) : la \in {90, 42, 40, 39, -85},
                                lo \in {-180, -105, -104, 0, 179}}

\* points of the distance function, antipodal pairs among them
HavPoints == {LatLong(la, lo) : la \in {-63, -30, 0, 30, 42, 63},
                                lo \in {-180, -88, 0, 7, 180}}

\* points of the zoom functions: the cosine of the latitude is positive
ZoomPoints == {LatLong(la, lo) : la \in {-88, -60, -30, 0, 30, 42, 60, 88},
                                 lo \in {-88, 0}}

\* metersPerPx arguments: ordinary, huge, tiny, zero, negative, non-finite
MetersPerPxSamples ==
    {FromFP(1000), Fin(1, 0), Fin(611, 0), Fin(1, 30), Fin(1, -30), Fin(0, 0),
     Fin(-1, 0), NaN, PosInf, NegInf}

ClientWidths == {0, 1, 400, 1920}

\* tile indices: next to the origin, and the last tile of the zoom-20 pyramid
TileIndices == (0 .. MaxTile) \cup {2^MAX_ZOOM - 1}

Tiles == {[type |-> "TileCoordinate", x |-> x, y |-> y, zoom |-> z] :
            x \in TileIndices, y \in TileIndices, z \in GoogleZoom}

\* offsets into a tile in quarter pixels: the edge, just inside, the
\* centre, just before the far edge
QuarterOffsets == {0, 1, 512, 1023}

PixelValues == {Norm(t * 1024 + o, -2) : t \in TileIndices, o \in QuarterOffsets}

Pixels == {[type |-> "PixelCoordinate", x |-> x, y |-> y, zoom |-> z] :
             x \in PixelValues, y \in PixelValues, z \in {1, 3, MAX_ZOOM}}

WorldValues == {Norm(n, -8) : n \in {0, 1, 16812, 24327, 32768, 65535}}

Worlds == {[type |-> "WorldCoordinate", x |-> x, y |-> y] :
             x \in WorldValues, y \in WorldValues}

----------------------------------------------------------------------------
(* The state machine: one action per exported function *)

Idle == op = "idle"

Init ==
    /\ op = "idle"
    /\ in = <<>>
    /\ out = <<>>

HaversineMeters ==
    /\ Idle
    /\ \E pt1 \in HavPoints, pt2 \in HavPoints :
        /\ op' = "haversineMeters"
        /\ in' = [pt1 |-> pt1, pt2 |-> pt2]
        /\ out' = haversineMeters(pt1, pt2)

GoogleZoomMetersPerPx ==
    /\ Idle
    /\ \E loc \in ZoomPoints, zoom \in GoogleZoom :
        /\ op' = "googleZoomMetersPerPx"
        /\ in' = [loc |-> loc, zoom |-> zoom]
        /\ out' = googleZoomMetersPerPx(loc, zoom)

\* the caller takes the result; the library is ready for the next call
Return ==
    /\ ~Idle
    /\ op # "inclusiveRange.while"
    /\ op' = "idle"
    /\ in' = <<>>
    /\ out' = <<>>

\* metersPerPx is a sample, or the resolution the previous call returned
GoogleZoomLevel ==
    /\ Idle \/ op = "googleZoomMetersPerPx"
    /\ \E loc \in ZoomPoints :
      \E mpp \in MetersPerPxSamples
                   \cup (IF op = "googleZoomMetersPerPx" THEN {out} ELSE {}) :
        /\ op' = "googleZoomLevel"
        /\ in' = [loc |-> loc, metersPerPx |-> mpp]
        /\ out' = googleZoomLevel(loc, mpp)

ChooseZoom ==
    /\ Idle
    /\ \E tl \in BoxPoints, br \in BoxPoints, w \in ClientWidths :
        /\ op' = "chooseZoom"
        /\ in' = [extent |-> [topLeft |-> tl, bottomRight |-> br], clientWidth |-> w]
        /\ out' = chooseZoom([topLeft |-> tl, bottomRight |-> br], Fin(w, 0))

ToWorldCoords ==
    /\ Idle
    /\ \E loc \in GeoPoints :
        /\ op' = "toWorldCoords"
        /\ in' = [loc |-> loc]
        /\ out' = toWorldCoords(loc)

WorldToPixelCoords ==
    /\ Idle
    /\ \E w \in Worlds, zoom \in GoogleZoom :
        /\ op' = "worldToPixelCoords"
        /\ in' = [w |-> w, zoom |-> zoom]
        /\ out' = worldToPixelCoords(w, zoom)

PixelToWorldCoords ==
    /\ Idle
    /\ \E p \in Pixels :
        /\ op' = "pixelToWorldCoords"
        /\ in' = [p |-> p]
        /\ out' = pixelToWorldCoords(p)

PixelToTileCoords ==
    /\ Idle
    /\ \E p \in Pixels :
        /\ op' = "pixelToTileCoords"
        /\ in' = [p |-> p]
        /\ out' = pixelToTileCoords(p)

TileToPixelCoords ==
    /\ Idle
    /\ \E t \in Tiles :
        /\ op' = "tileToPixelCoords"
        /\ in' = [t |-> t]
        /\ out' = tileToPixelCoords(t)

TileCoordinate ==
    /\ Idle
    /\ \E loc \in GeoPoints, zoom \in GoogleZoom :
        /\ op' = "tileCoordinate"
        /\ in' = [loc |-> loc, zoom |-> zoom]
        /\ out' = tileCoordinate(loc, zoom)

\* inclusiveRange, statement by statement.  Entry: range = [min], curr = min
InclusiveRangeEnter ==
    /\ Idle
    /\ \E min \in -MaxRange .. MaxRange, max \in -MaxRange .. MaxRange :
        /\ op' = "inclusiveRange.while"
        /\ in' = [min |-> min, max |-> max, curr |-> min]
        /\ out' = <<min>>

\* one iteration: the last element is below max; curr++, range.push(curr)
InclusiveRangeStep ==
    /\ op = "inclusiveRange.while"
    /\ out[Len(out)] < in.max
    /\ op' = op
    /\ in' = [in EXCEPT !.curr = @ + 1]
    /\ out' = Append(out, in.curr + 1)

\* the loop condition fails: return range
InclusiveRangeExit ==
    /\ op = "inclusiveRange.while"
    /\ ~(out[Len(out)] < in.max)
    /\ op' = "inclusiveRange"
    /\ UNCHANGED <<in, out>>

\* boxes whose tile span is at most MaxSpan on each axis
TileCoordinates ==
    /\ Idle
    /\ \E tl \in BoxPoints, br \in BoxPoints, zoom \in GoogleZoom :
        /\ tileCoordinate(br, zoom).x - tileCoordinate(tl, zoom).x <= MaxSpan
        /\ tileCoordinate(br, zoom).y - tileCoordinate(tl, zoom).y <= MaxSpan
        /\ op' = "tileCoordinates"
        /\ in' = [extent |-> [topLeft |-> tl, bottomRight |-> br], zoom |-> zoom]
        /\ out' = tileCoordinates([topLeft |-> tl, bottomRight |-> br], zoom)

Next ==
    \/ HaversineMeters
    \/ GoogleZoomMetersPerPx
    \/ GoogleZoomLevel
    \/ ChooseZoom
    \/ ToWorldCoords
    \/ WorldToPixelCoords
    \/ PixelToWorldCoords
    \/ PixelToTileCoords
    \/ TileToPixelCoords
    \/ TileCoordinate
    \/ InclusiveRangeEnter
    \/ InclusiveRangeStep
    \/ InclusiveRangeExit
    \/ TileCoordinates
    \/ Return

Spec == Init /\ [][Next]_vars

\* a call that has started runs on: the loop of inclusiveRange is not starved
FairSpec ==
    Spec /\ WF_vars(InclusiveRangeStep) /\ WF_vars(InclusiveRangeExit)

----------------------------------------------------------------------------
(* Properties *)

StrictlyInside(p, b) ==
    /\ DyLess(b.topLeft.x, p.x) /\ DyLess(p.x, b.bottomRight.x)
    /\ DyLess(b.topLeft.y, p.y) /\ DyLess(p.y, b.bottomRight.y)

\* the midpoint of a tile's pixel bounds
CenterOf(b, zoom) ==
    [type |-> "PixelCoordinate",
     x |-> DyDivPow2(DyAdd(b.topLeft.x, b.bottomRight.x), DyInt(2)),
     y |-> DyDivPow2(DyAdd(b.topLeft.y, b.bottomRight.y), DyInt(2)),
     zoom |-> zoom]

\* C1: a pixel strictly inside the bounds tileToPixelCoords(tc) returns, on
\* both axes, is mapped by pixelToTileCoords to tc (x, y and zoom).
C1_TileContainment ==
    op = "pixelToTileCoords" =>
        \A tc \in Tiles :
            (tc.zoom = in.p.zoom /\ StrictlyInside(in.p, tileToPixelCoords(tc)))
                => out = tc

\* a call on the exact centre of a tile away from the origin
C1_Witness ==
    /\ op = "pixelToTileCoords"
    /\ \E tc \in Tiles :
        /\ tc.x = 2^MAX_ZOOM - 1 /\ tc.y = 2 /\ tc.zoom = MAX_ZOOM
        /\ in.p = CenterOf(tileToPixelCoords(tc), tc.zoom)
        /\ StrictlyInside(in.p, tileToPixelCoords(tc))
        /\ out = tc

\* C2: a box whose corners are the same point yields exactly one tile, the
\* tile of that point.
C2_DegenerateBox ==
    (op = "tileCoordinates" /\ in.extent.topLeft = in.extent.bottomRight) =>
        /\ Len(out) = 1
        /\ out[1] = tileCoordinate(in.extent.topLeft, in.zoom)

C2_Witness ==
    /\ op = "tileCoordinates"
    /\ in.extent.topLeft = in.extent.bottomRight
    /\ in.extent.topLeft = LatLong(42, -105)
    /\ in.zoom = MAX_ZOOM
    /\ Len(out) = 1

\* C3 (as claimed): googleZoomLevel and chooseZoom always return an integer
\* in 1..20, whatever metersPerPx, the box and the viewport width are.
C3_ZoomAlwaysInRange ==
    op \in {"googleZoomLevel", "chooseZoom"} =>
        /\ IsInt(out)
        /\ IntOf(out) \in GoogleZoom

\* C4: googleZoomLevel(point, googleZoomMetersPerPx(point, zoom)) = zoom for
\* every zoom in 1..20 and latitude inside (-89, 89).
C4_ZoomRoundTrip ==
    /\ op = "googleZoomMetersPerPx" =>
           googleZoomLevel(in.loc, out) = Fin(in.zoom, 0)
    /\ op = "googleZoomLevel" =>
           \A z \in GoogleZoom :
               in.metersPerPx = googleZoomMetersPerPx(in.loc, z) => out = Fin(z, 0)

\* the resolution of zoom 20 at latitude 88 handed back to googleZoomLevel
C4_Witness ==
    /\ op = "googleZoomLevel"
    /\ in.loc.latitude = 88
    /\ in.metersPerPx = googleZoomMetersPerPx(in.loc, MAX_ZOOM)
    /\ out = Fin(MAX_ZOOM, 0)

\* C5: when the tile of topLeft is not beyond the tile of bottomRight on
\* either axis, tileCoordinates returns the Cartesian product of the two
\* inclusive index ranges, each pair once, x-major and y-minor ascending,
\* every element carrying the zoom.
C5_BoundingBoxEnumeration ==
    op = "tileCoordinates" =>
        LET tl == tileCoordinate(in.extent.topLeft, in.zoom)
            br == tileCoordinate(in.extent.bottomRight, in.zoom)
            w == br.x - tl.x + 1
            h == br.y - tl.y + 1
        IN  (tl.x <= br.x /\ tl.y <= br.y) =>
                /\ Len(out) = w * h
                /\ \A i \in 1 .. Len(out) :
                       out[i] = [type |-> "TileCoordinate",
                                 x |-> tl.x + ((i - 1) \div h),
                                 y |-> tl.y + ((i - 1) % h),
                                 zoom |-> in.zoom]

\* a box covering at least two columns and two rows of tiles
C5_Witness ==
    /\ op = "tileCoordinates"
    /\ Len(out) >= 6
    /\ out[1].x < out[Len(out)].x
    /\ out[1].y < out[Len(out)].y

\* C6: worldToPixelCoords multiplies both axes by 2^zoom (1 << zoom is
\* 2^zoom for zoom in 1..20) and carries the zoom; pixelToWorldCoords undoes
\* it, and worldToPixelCoords undoes pixelToWorldCoords.
C6_WorldPixelScaling ==
    /\ op = "worldToPixelCoords" =>
           /\ ShiftLeft1(in.zoom) = DyInt(2^(in.zoom))
           /\ out.x = DyMul(in.w.x, DyInt(2^(in.zoom)))
           /\ out.y = DyMul(in.w.y, DyInt(2^(in.zoom)))
           /\ out.zoom = in.zoom
           /\ pixelToWorldCoords(out) = in.w
    /\ op = "pixelToWorldCoords" =>
           worldToPixelCoords(out, in.p.zoom) = in.p

C6_Witness ==
    /\ op = "pixelToWorldCoords"
    /\ in.p.zoom = MAX_ZOOM
    /\ in.p.x.e < 0
    /\ out.x.e < -MAX_ZOOM
    /\ worldToPixelCoords(out, in.p.zoom) = in.p

InSquare(v) == ~DyLess(v, DyInt(0)) /\ DyLess(v, DyInt(GOOGLE_TILE_SIZE))

InPyramid(t) ==
    /\ 0 <= t.x /\ t.x <= 2^(t.zoom) - 1
    /\ 0 <= t.y /\ t.y <= 2^(t.zoom) - 1

C8_HaversineCommutative ==
    op = "haversineMeters" =>
        /\ out = haversineMeters(in.pt2, in.pt1)
        /\ IsFin(out)
        /\ out.m >= 0

\* C9: the top-left corner of a tile's bounds maps back to the tile, the
\* bottom-right corner maps to the diagonal neighbour, and both corners
\* carry the tile's zoom.
C9_TileBoundary ==
    op = "tileToPixelCoords" =>
        /\ pixelToTileCoords(out.topLeft) = in.t
        /\ pixelToTileCoords(out.bottomRight)
               = [in.t EXCEPT !.x = @ + 1, !.y = @ + 1]
        /\ pixelToTileCoords(out.bottomRight) # in.t
        /\ out.topLeft.zoom = in.t.zoom
        /\ out.bottomRight.zoom = in.t.zoom

C9_Witness ==
    /\ op = "tileToPixelCoords"
    /\ in.t.x = 2^MAX_ZOOM - 1 /\ in.t.y = 0 /\ in.t.zoom = MAX_ZOOM
    /\ pixelToTileCoords(out.bottomRight).x = 2^MAX_ZOOM
    /\ pixelToTileCoords(out.topLeft).x = 2^MAX_ZOOM - 1

\* what inclusiveRange and tileCoordinates return
RangeResults ==
    /\ op = "inclusiveRange" =>
           /\ Len(out) >= 1
           /\ out = inclusiveRange(in.min, in.max)
           /\ in.min <= in.max =>
                  /\ Len(out) = in.max - in.min + 1
                  /\ \A i \in 1 .. Len(out) : out[i] = in.min + i - 1
           /\ in.min > in.max => out = <<in.min>>
    /\ op = "tileCoordinates" =>
           LET tl == tileCoordinate(in.extent.topLeft, in.zoom)
               br == tileCoordinate(in.extent.bottomRight, in.zoom)
           IN  /\ Len(out) >= 1
               /\ out[1] = tl
               /\ br.x < tl.x => \A i \in 1 .. Len(out) : out[i].x = tl.x
               /\ br.y < tl.y => \A i \in 1 .. Len(out) : out[i].y = tl.y

\* C10: inclusiveRange terminates, and returns min, min + 1, ..., max when
\* min <= max and the single element min when min > max, never an empty
\* list; so tileCoordinates is never empty, starts with the tile of
\* topLeft, and an axis on which bottomRight's index is below topLeft's
\* contributes only topLeft's index.
C10_RangeNeverEmpty ==
    /\ []RangeResults
    /\ (op = "inclusiveRange.while") ~> (op = "inclusiveRange")

\* an inverted box: bottomRight lies west of topLeft
C10_Witness ==
    /\ op = "tileCoordinates"
    /\ tileCoordinate(in.extent.bottomRight, in.zoom).x
           < tileCoordinate(in.extent.topLeft, in.zoom).x
    /\ tileCoordinate(in.extent.bottomRight, in.zoom).y
           > tileCoordinate(in.extent.topLeft, in.zoom).y
    /\ Len(out) >= 2
    /\ out[1] = tileCoordinate(in.extent.topLeft, in.zoom)

====
